---- MODULE Spec2Model ----
(***************************************************************************)
(* Basis Trading Monitor: the Streamlit dashboard script streamlit/app.py. *)
(*                                                                         *)
(* A script run executes app.py top to bottom.  A run is started by the    *)
(* first page load, by a widget interaction of the user, or by st.rerun(). *)
(* Between runs the script is idle.  The clock advances (in whole seconds) *)
(* only while the script is idle or blocked in an HTTP call; the straight- *)
(* line code between two HTTP calls takes less than one clock unit.  A      *)
(* widget interaction is taken up when the current run has ended.  The     *)
(* backend answers a GET with records of the shapes the panels read.       *)
(***************************************************************************)
EXTENDS Integers, Sequences, FiniteSets, TLC

\* ------------------------------------------------------------------ bounds
MaxTime == 2            \* the clock stops advancing here
MaxPick == 1            \* the user drags the slider to SliderMin..MaxPick
MaxLen == 3             \* longest snapshot list given to the chart builder

\* ------------------------------------------------------- program constants
SliderMin == 1
SliderMax == 60
SliderDefault == 5
TailRows == 10
HTTP_OK == 200
HTTP_CREATED == 201

API_BASE_URL == "http://localhost:8080/api"

\* the fetch block with positions fetched before strategies
Endpoints_reordered ==
    <<"health", "basis/snapshots", "positions", "strategies", "trades">>

\* The five resources, in the order the script fetches them.
Endpoints == <<"health", "basis/snapshots", "strategies", "positions", "trades">>

NoUpdate == -1          \* 'last_update' not in st.session_state

VARIABLES
    pc,                 \* position of the script: "idle" when no run is active
    now,                \* time.time()
    auto_refresh,       \* the "Auto Refresh" checkbox
    refresh_interval,   \* the "Refresh Interval (seconds)" slider
    form,               \* the values of the five input widgets of the form
    submitted,          \* what st.form_submit_button returns in this run
    last_update,        \* st.session_state.last_update, NoUpdate when absent
    response,           \* the outcome of the HTTP call that has just returned
    getLog,             \* endpoints a GET was issued to, in this run, in order
    fetched,            \* values fetch_data returned in this run, in order
    messages,           \* st.success / st.error elements emitted by this run
    panels,             \* the data panels emitted by this run
    origin,             \* what started this run: "load", "user" or "rerun"
    submit_run,         \* the last user interaction was a form submission
    post_outcome,       \* how the POST of that submission ended
    posts,              \* bodies POSTed since the last user interaction
    failed              \* endpoints whose GET failed in this run

vars == <<pc, now, auto_refresh, refresh_interval, form, submitted, last_update,
          response, getLog, fetched, messages, panels, origin, submit_run,
          post_outcome, posts, failed>>

\* ------------------------------------------------------------ input domains
Intervals == {n \in SliderMin..SliderMax : n <= MaxPick} \cup {SliderDefault}

DefaultForm ==
    [spot_symbol |-> "BTC-USD", future_symbol |-> "BTC-PERP",
     target_basis |-> 5, max_position |-> 1, min_trade_size |-> 1]

FormInputs ==
    {DefaultForm,
     [spot_symbol |-> "ETH-USD", future_symbol |-> "ETH-PERP",
      target_basis |-> 0, max_position |-> 2, min_trade_size |-> 0]}

Symbols == {<<"B">>, <<"P">>, <<"B", "/", "B">>}
RawTimestamps == {"T1", "T2"}

Snapshot ==
    [timestamp : RawTimestamps, spot_symbol : Symbols, future_symbol : Symbols,
     spot_price : {100}, future_price : {101}, basis_percent : {1}]

SnapA ==
    [timestamp |-> "T2", spot_symbol |-> <<"B">>, future_symbol |-> <<"P">>,
     spot_price |-> 100, future_price |-> 101, basis_percent |-> 1]
SnapB ==
    [timestamp |-> "T1", spot_symbol |-> <<"P">>, future_symbol |-> <<"B">>,
     spot_price |-> 100, future_price |-> 101, basis_percent |-> 1]

StrategyA ==
    [id |-> 1, spot_symbol |-> "BTC-USD", future_symbol |-> "BTC-PERP",
     target_basis |-> 5, max_position |-> 1, min_trade_size |-> 1,
     is_active |-> TRUE]
PositionA ==
    [symbol |-> "BTC-USD", side |-> "long", size |-> 1, entry_price |-> 100,
     mark_price |-> 101, unrealized_pl |-> 1]
PositionB ==
    [symbol |-> "BTC-PERP", side |-> "short", size |-> 1, entry_price |-> 101,
     mark_price |-> 101, unrealized_pl |-> 0]
TradeA ==
    [id |-> 1, strategy_id |-> 1, side |-> "buy", size |-> 1,
     spot_price |-> 100, future_price |-> 101, basis |-> 1,
     status |-> "filled", created_at |-> "T1"]

\* JSON bodies the backend answers a GET with (section 6 of the interface).
Bodies(endpoint) ==
    CASE endpoint = "health" -> {[status |-> "healthy"], [status |-> "degraded"]}
      [] endpoint = "basis/snapshots" -> {<<>>, <<SnapA, SnapB, SnapA>>}
      [] endpoint = "strategies" -> {<<>>, <<StrategyA>>}
      [] endpoint = "positions" -> {<<>>, <<PositionA, PositionB>>}
      [] endpoint = "trades" -> {<<>>, <<TradeA>>}

NoResponse ==
    [raises |-> FALSE, status_code |-> 0, parseable |-> FALSE, body |-> <<>>,
     text |-> ""]

\* requests.get either raises or returns a response with a status code and
\* a body that response.json() can or cannot parse.  text is str(e) of the
\* exception raised by the request or by the parser.
GetResponses(endpoint) ==
    {[raises |-> TRUE, status_code |-> 0, parseable |-> FALSE, body |-> <<>>,
      text |-> "str(e)"]}
    \cup {[raises |-> FALSE, status_code |-> s, parseable |-> TRUE, body |-> b,
           text |-> ""] : s \in {200, 500}, b \in Bodies(endpoint)}
    \cup {[raises |-> FALSE, status_code |-> s, parseable |-> FALSE,
           body |-> <<>>, text |-> "str(e)"] : s \in {200, 500}}

PostResponses ==
    {[raises |-> TRUE, status_code |-> 0, parseable |-> FALSE, body |-> <<>>,
      text |-> "str(e)"]}
    \cup {[raises |-> FALSE, status_code |-> s, parseable |-> FALSE,
           body |-> <<>>, text |-> "response.text"] : s \in {201, 200, 400}}

\* A GET fails when it raises, answers a status other than 200, or answers
\* 200 with a body that does not parse.
GetFailed(resp) == resp.raises \/ resp.status_code # 200 \/ ~resp.parseable

\* ---------------------------------------------------------------- helpers
Truthy(v) == DOMAIN v # {}

Get(d, key, default) == IF key \in DOMAIN d THEN d[key] ELSE default

Upper(s) ==
    CASE s = "healthy" -> "HEALTHY"
      [] s = "degraded" -> "DEGRADED"
      [] s = "Unknown" -> "UNKNOWN"
      [] OTHER -> s

StSuccess(text) == [kind |-> "success", text |-> text]
StError(text) == [kind |-> "error", text |-> text]

\* lines 62-69
strategy_data(f) ==
    [spot_symbol |-> f.spot_symbol, future_symbol |-> f.future_symbol,
     target_basis |-> f.target_basis, max_position |-> f.max_position,
     min_trade_size |-> f.min_trade_size, is_active |-> TRUE]

\* lines 70-77: the element the submit handler emits for a POST outcome
submit_message(resp) ==
    IF resp.raises
    THEN StError(<<"Error", resp.text>>)
    ELSE IF resp.status_code = HTTP_CREATED
         THEN StSuccess(<<"Strategy added successfully!">>)
         ELSE StError(<<"Failed to add strategy", resp.text>>)

\* fetch_data with response.json() called outside the try block
fetch_data_json_outside_try(endpoint, resp) ==
    IF resp.raises
    THEN [ret |-> <<>>, raised |-> FALSE,
          errors |-> <<StError(<<"Error fetching", endpoint, resp.text>>)>>]
    ELSE IF resp.status_code = HTTP_OK
         THEN IF resp.parseable
              THEN [ret |-> resp.body, raised |-> FALSE, errors |-> <<>>]
              ELSE [ret |-> <<>>, raised |-> TRUE, errors |-> <<>>]
         ELSE [ret |-> <<>>, raised |-> FALSE,
               errors |-> <<StError(<<"Failed to fetch", endpoint,
                                      ToString(resp.status_code)>>)>>]

\* fetch_data without the except clause
fetch_data_no_except(endpoint, resp) ==
    IF resp.raises \/ (resp.status_code = HTTP_OK /\ ~resp.parseable)
    THEN [ret |-> <<>>, raised |-> TRUE, errors |-> <<>>]
    ELSE IF resp.status_code = HTTP_OK
         THEN [ret |-> resp.body, raised |-> FALSE, errors |-> <<>>]
         ELSE [ret |-> <<>>, raised |-> FALSE,
               errors |-> <<StError(<<"Failed to fetch", endpoint,
                                      ToString(resp.status_code)>>)>>]

\* lines 80-91.  ret is the value returned, errors the st.error elements
\* emitted, raised whether an exception leaves the function.
fetch_data(endpoint, resp) ==
    IF resp.raises
    THEN [ret |-> <<>>, raised |-> FALSE,
          errors |-> <<StError(<<"Error fetching", endpoint, resp.text>>)>>]
    ELSE IF resp.status_code = HTTP_OK
         THEN IF resp.parseable
              THEN [ret |-> resp.body, raised |-> FALSE, errors |-> <<>>]
              ELSE [ret |-> <<>>, raised |-> FALSE,
                    errors |-> <<StError(<<"Error fetching", endpoint,
                                           resp.text>>)>>]
         ELSE [ret |-> <<>>, raised |-> FALSE,
               errors |-> <<StError(<<"Failed to fetch", endpoint,
                                      ToString(resp.status_code)>>)>>]

\* the trigger condition without the checkbox
refresh_due_any_toggle(enabled, t, last, interval) == (t - last) > interval

\* line 139
refresh_due(enabled, t, last, interval) == enabled /\ (t - last) > interval

\* ----------------------------------------------------------- data shaping
\* pd.to_datetime on the backend's timestamp strings (line 172)
to_datetime(s) == CASE s = "T1" -> 1 [] s = "T2" -> 2

\* lines 170-173: the DataFrame of the snapshots with the parsed timestamp
\* and the derived column pair = spot_symbol + '/' + future_symbol
snapshots_frame(snapshots) ==
    [i \in 1..Len(snapshots) |->
        [timestamp |-> to_datetime(snapshots[i].timestamp),
         spot_symbol |-> snapshots[i].spot_symbol,
         future_symbol |-> snapshots[i].future_symbol,
         spot_price |-> snapshots[i].spot_price,
         future_price |-> snapshots[i].future_price,
         basis_percent |-> snapshots[i].basis_percent,
         pair |-> snapshots[i].spot_symbol \o <<"/">> \o snapshots[i].future_symbol]]

\* DataFrame.empty: no rows, or no columns
df_empty(df) == Len(df) = 0 \/ \A i \in 1..Len(df) : DOMAIN df[i] = {}

Column(df, c) == [i \in 1..Len(df) |-> df[i][c]]

\* Series.unique(): the distinct values in order of first appearance
RECURSIVE unique(_)
unique(s) ==
    IF Len(s) = 0
    THEN <<>>
    ELSE <<Head(s)>> \o SelectSeq(unique(Tail(s)), LAMBDA v : v # Head(s))

\* df[cols]
Project(df, cols) == [i \in 1..Len(df) |-> [c \in cols |-> df[i][c]]]

\* df.tail(n)
TailSeq(s, n) == IF Len(s) <= n THEN s ELSE SubSeq(s, Len(s) - n + 1, Len(s))

\* create_basis_chart looping over the pair column itself, not its unique()
create_basis_chart_per_row(snapshots_df) ==
    LET pairs == Column(snapshots_df, "pair")
    IN  [title |-> "Basis Percentage Over Time",
         traces |->
            [k \in 1..Len(pairs) |->
                LET pair_data ==
                        SelectSeq(snapshots_df, LAMBDA r : r.pair = pairs[k])
                IN  [name |-> pairs[k],
                     x |-> Column(pair_data, "timestamp"),
                     y |-> Column(pair_data, "basis_percent"),
                     mode |-> "lines+markers"]]]

\* lines 93-116
create_basis_chart(snapshots_df) ==
    LET pairs == unique(Column(snapshots_df, "pair"))
    IN  [title |-> "Basis Percentage Over Time",
         traces |->
            [k \in 1..Len(pairs) |->
                LET pair_data ==
                        SelectSeq(snapshots_df, LAMBDA r : r.pair = pairs[k])
                IN  [name |-> pairs[k],
                     x |-> Column(pair_data, "timestamp"),
                     y |-> Column(pair_data, "basis_percent"),
                     mode |-> "lines+markers"]]]

color_discrete_map == [long |-> "#00CC88", short |-> "#FF4444"]

\* lines 118-130
create_position_chart(positions_df) ==
    [title |-> "Current Positions",
     bars |->
        [i \in 1..Len(positions_df) |->
            [x |-> positions_df[i].symbol, y |-> positions_df[i].size,
             color |-> color_discrete_map[positions_df[i].side]]]]

\* ------------------------------------------------------------------ panels
Hidden == <<"none">>

NoPanels ==
    [health |-> Hidden, metrics |-> Hidden, basis |-> Hidden,
     positions |-> Hidden, strategies |-> Hidden, trades |-> Hidden]

\* lines 151-154
health_panel(health) ==
    IF Truthy(health)
    THEN <<"metric",
           <<"System Status", Upper(Get(health, "status", "Unknown")),
             IF Get(health, "status", "None") = "healthy"
             THEN "Online" ELSE "Offline">>>>
    ELSE Hidden

\* lines 157-164
metrics_panel(snapshots) ==
    IF Truthy(snapshots)
    THEN LET latest_snapshot == snapshots[1]
         IN  <<"metric",
               <<"Latest Basis", Get(latest_snapshot, "basis_percent", 0), "%">>,
               <<"Spot Price", "$", Get(latest_snapshot, "spot_price", 0)>>,
               <<"Future Price", "$", Get(latest_snapshot, "future_price", 0)>>>>
    ELSE Hidden

\* the basis panel with the else branch on the inner if
basis_panel_inner_else(snapshots) ==
    IF Truthy(snapshots)
    THEN IF ~df_empty(snapshots)
         THEN <<"plotly_chart", create_basis_chart(snapshots_frame(snapshots))>>
         ELSE <<"info", "No basis data available yet">>
    ELSE Hidden

\* lines 168-178
basis_panel(snapshots) ==
    IF Truthy(snapshots)
    THEN IF ~df_empty(snapshots)
         THEN <<"plotly_chart", create_basis_chart(snapshots_frame(snapshots))>>
         ELSE Hidden
    ELSE <<"info", "No basis data available yet">>

\* lines 185-196
positions_panel(positions) ==
    IF Truthy(positions)
    THEN <<"plotly_chart", create_position_chart(positions),
           Project(positions, {"symbol", "side", "size", "entry_price",
                               "mark_price", "unrealized_pl"})>>
    ELSE <<"info", "No active positions">>

\* lines 200-207
strategies_panel(strategies) ==
    IF Truthy(strategies)
    THEN <<"dataframe",
           Project(strategies, {"id", "spot_symbol", "future_symbol",
                                "target_basis", "max_position", "is_active"})>>
    ELSE <<"info", "No active strategies">>

\* lines 211-221
trades_panel(trades) ==
    IF Truthy(trades)
    THEN <<"dataframe",
           TailSeq(Project([i \in 1..Len(trades) |->
                               [trades[i] EXCEPT
                                   !.created_at = to_datetime(trades[i].created_at)]],
                           {"id", "strategy_id", "side", "size", "spot_price",
                            "future_price", "basis", "status", "created_at"}),
                   TailRows)>>
    ELSE <<"info", "No trades executed yet">>

\* ------------------------------------------------------------------ state
Init ==
    /\ pc = "form"
    /\ now = 0
    /\ auto_refresh = TRUE
    /\ refresh_interval = SliderDefault
    /\ form = DefaultForm
    /\ submitted = FALSE
    /\ last_update = NoUpdate
    /\ response = NoResponse
    /\ getLog = <<>>
    /\ fetched = <<>>
    /\ messages = <<>>
    /\ panels = NoPanels
    /\ origin = "load"
    /\ submit_run = FALSE
    /\ post_outcome = "none"
    /\ posts = <<>>
    /\ failed = {}

\* A new run starts at the top of the script with an empty page.
StartRun(by) ==
    /\ pc' = "form"
    /\ response' = NoResponse
    /\ getLog' = <<>>
    /\ fetched' = <<>>
    /\ messages' = <<>>
    /\ panels' = NoPanels
    /\ failed' = {}
    /\ origin' = by

\* A user interaction opens a new history of POSTs.
NewInteraction(is_submit) ==
    /\ submit_run' = is_submit
    /\ post_outcome' = "none"
    /\ posts' = <<>>
    /\ submitted' = is_submit

\* ------------------------------------------------------- user interactions
\* line 47: the user flips the checkbox
ToggleAutoRefresh ==
    /\ pc = "idle"
    /\ auto_refresh' = ~auto_refresh
    /\ StartRun("user")
    /\ NewInteraction(FALSE)
    /\ UNCHANGED <<now, refresh_interval, form, last_update>>

\* line 48: the user moves the slider
MoveSlider ==
    /\ pc = "idle"
    /\ \E n \in Intervals \ {refresh_interval} : refresh_interval' = n
    /\ StartRun("user")
    /\ NewInteraction(FALSE)
    /\ UNCHANGED <<now, auto_refresh, form, last_update>>

\* lines 53-61: the user fills the form in and presses "Add Strategy"
SubmitForm ==
    /\ pc = "idle"
    /\ \E f \in FormInputs : form' = f
    /\ StartRun("user")
    /\ NewInteraction(TRUE)
    /\ UNCHANGED <<now, auto_refresh, refresh_interval, last_update>>

\* ------------------------------------------------------------ script steps
\* the POST issued without the st.form_submit_button guard
FormHandler_unguarded ==
    /\ pc = "form"
    /\ posts' = Append(posts, [url |-> <<API_BASE_URL, "strategies">>,
                               json |-> strategy_data(form)])
    /\ pc' = "post_wait"
    /\ UNCHANGED <<now, auto_refresh, refresh_interval, form, submitted,
                   last_update, response, getLog, fetched, messages, panels,
                   origin, submit_run, post_outcome, failed>>

\* lines 61-71: the submit handler builds the body and issues the POST
FormHandler ==
    /\ pc = "form"
    /\ IF submitted
       THEN /\ posts' = Append(posts, [url |-> <<API_BASE_URL, "strategies">>,
                                       json |-> strategy_data(form)])
            /\ pc' = "post_wait"
       ELSE /\ posts' = posts
            /\ pc' = "session"
    /\ UNCHANGED <<now, auto_refresh, refresh_interval, form, submitted,
                   last_update, response, getLog, fetched, messages, panels,
                   origin, submit_run, post_outcome, failed>>

\* lines 71-77: requests.post returns or raises, the handler reports it
PostReturns ==
    /\ pc = "post_wait"
    /\ \E r \in PostResponses :
          /\ messages' = Append(messages, submit_message(r))
          /\ post_outcome' = IF r.raises THEN "raised"
                             ELSE IF r.status_code = 201 THEN "created"
                             ELSE "rejected"
    /\ pc' = "session"
    /\ UNCHANGED <<now, auto_refresh, refresh_interval, form, submitted,
                   last_update, response, getLog, fetched, panels, origin,
                   submit_run, posts, failed>>

\* lines 136-137
SessionInit ==
    /\ pc = "session"
    /\ last_update' = IF last_update = NoUpdate THEN now ELSE last_update
    /\ pc' = "check"
    /\ UNCHANGED <<now, auto_refresh, refresh_interval, form, submitted,
                   response, getLog, fetched, messages, panels, origin,
                   submit_run, post_outcome, posts, failed>>

\* st.rerun() without the reset of last_update
AutoRefreshRerun_no_reset ==
    /\ pc = "check"
    /\ refresh_due(auto_refresh, now, last_update, refresh_interval)
    /\ StartRun("rerun")
    /\ submitted' = FALSE
    /\ UNCHANGED <<now, auto_refresh, refresh_interval, form, submit_run,
                   post_outcome, posts, last_update>>

\* lines 139-141: the trigger fires, st.rerun() abandons this run and starts
\* the script again; the submit button is no longer pressed in the new run
AutoRefreshRerun ==
    /\ pc = "check"
    /\ refresh_due(auto_refresh, now, last_update, refresh_interval)
    /\ last_update' = now
    /\ StartRun("rerun")
    /\ submitted' = FALSE
    /\ UNCHANGED <<now, auto_refresh, refresh_interval, form, submit_run,
                   post_outcome, posts>>

\* line 139: the condition is false, the run goes on to the fetches
AutoRefreshSkip ==
    /\ pc = "check"
    /\ ~refresh_due(auto_refresh, now, last_update, refresh_interval)
    /\ pc' = "get"
    /\ UNCHANGED <<now, auto_refresh, refresh_interval, form, submitted,
                   last_update, response, getLog, fetched, messages, panels,
                   origin, submit_run, post_outcome, posts, failed>>

\* lines 144-148 and 83: the next fetch_data call issues its GET
GetIssue ==
    /\ pc = "get"
    /\ getLog' = Append(getLog, Endpoints[Len(fetched) + 1])
    /\ pc' = "get_wait"
    /\ UNCHANGED <<now, auto_refresh, refresh_interval, form, submitted,
                   last_update, response, fetched, messages, panels, origin,
                   submit_run, post_outcome, posts, failed>>

\* line 83: requests.get returns or raises
GetReturns ==
    /\ pc = "get_wait"
    /\ \E r \in GetResponses(getLog[Len(getLog)]) :
          /\ response' = r
          /\ failed' = IF GetFailed(r)
                       THEN failed \cup {getLog[Len(getLog)]}
                       ELSE failed
    /\ pc' = "get_done"
    /\ UNCHANGED <<now, auto_refresh, refresh_interval, form, submitted,
                   last_update, getLog, fetched, messages, panels, origin,
                   submit_run, post_outcome, posts>>

\* lines 84-91 and 144-148: fetch_data handles the outcome and returns; an
\* exception leaving fetch_data would end the run
FetchDone ==
    /\ pc = "get_done"
    /\ LET res == fetch_data(getLog[Len(getLog)], response)
       IN  IF res.raised
           THEN /\ messages' = Append(messages \o res.errors,
                                      [kind |-> "exception",
                                       text |-> <<"uncaught">>])
                /\ fetched' = fetched
                /\ pc' = "idle"
                /\ submitted' = FALSE
           ELSE /\ messages' = messages \o res.errors
                /\ fetched' = Append(fetched, res.ret)
                /\ pc' = IF Len(fetched) + 1 = Len(Endpoints)
                         THEN "panels" ELSE "get"
                /\ submitted' = submitted
    /\ response' = NoResponse
    /\ UNCHANGED <<now, auto_refresh, refresh_interval, form, last_update,
                   getLog, panels, origin, submit_run, post_outcome, posts,
                   failed>>

\* lines 150-225: the panels are rendered and the run ends
RenderPanels ==
    /\ pc = "panels"
    /\ panels' = [health |-> health_panel(fetched[1]),
                  metrics |-> metrics_panel(fetched[2]),
                  basis |-> basis_panel(fetched[2]),
                  positions |-> positions_panel(fetched[4]),
                  strategies |-> strategies_panel(fetched[3]),
                  trades |-> trades_panel(fetched[5])]
    /\ pc' = "idle"
    /\ submitted' = FALSE
    /\ UNCHANGED <<now, auto_refresh, refresh_interval, form, last_update,
                   response, getLog, fetched, messages, origin, submit_run,
                   post_outcome, posts, failed>>

\* time passes while the script is idle or blocked in an HTTP call
Tick ==
    /\ pc \in {"idle", "post_wait", "get_wait"}
    /\ now < MaxTime
    /\ now' = now + 1
    /\ UNCHANGED <<pc, auto_refresh, refresh_interval, form, submitted,
                   last_update, response, getLog, fetched, messages, panels,
                   origin, submit_run, post_outcome, posts, failed>>

UserStep == ToggleAutoRefresh \/ MoveSlider \/ SubmitForm

ScriptStep ==
    \/ FormHandler
    \/ PostReturns
    \/ SessionInit
    \/ AutoRefreshRerun
    \/ AutoRefreshSkip
    \/ GetIssue
    \/ GetReturns
    \/ FetchDone
    \/ RenderPanels

Next == UserStep \/ ScriptStep \/ Tick

Spec == Init /\ [][Next]_vars

\* The interpreter keeps running the script and the backend answers; the
\* user is under no obligation to touch the page.
FairSpec == Spec /\ WF_vars(ScriptStep) /\ WF_vars(Tick)

\* ------------------------------------------- the chart builder on its own
SnapshotLists == UNION {[1..n -> Snapshot] : n \in 0..MaxLen}

\* A run that has fetched a snapshot list and is about to render it.
ChartInit ==
    /\ pc = "panels"
    /\ now = 0
    /\ auto_refresh = TRUE
    /\ refresh_interval = SliderDefault
    /\ form = DefaultForm
    /\ submitted = FALSE
    /\ last_update = 0
    /\ response = NoResponse
    /\ getLog = Endpoints
    /\ \E snaps \in SnapshotLists :
          fetched = <<[status |-> "healthy"], snaps, <<>>, <<>>, <<>>>>
    /\ messages = <<>>
    /\ panels = NoPanels
    /\ origin = "load"
    /\ submit_run = FALSE
    /\ post_outcome = "none"
    /\ posts = <<>>
    /\ failed = {}

ChartNext == RenderPanels

ChartSpec == ChartInit /\ [][ChartNext]_vars

\* ------------------------------------------------------------------ claims
FixedOrder == <<"health", "basis/snapshots", "strategies", "positions", "trades">>

Elapsed == now - last_update

\* The st.success / st.error elements the submit handler put on the page.
FormMessages ==
    SelectSeq(messages,
              LAMBDA m : m.text[1] \in {"Strategy added successfully!",
                                        "Failed to add strategy", "Error"})

\* C1: every fetch_data call whose GET raised, answered a status other than
\* 200 or answered 200 with an unparseable body returns an empty list and
\* emits exactly one error element; a call whose GET answered 200 with
\* parseable JSON returns that JSON and emits nothing; in both cases no
\* exception leaves fetch_data, the script goes on to its next statement.
C1_FetchContract ==
    [][pc = "get_done" =>
        /\ pc' \in {"get", "panels"}
        /\ Len(fetched') = Len(fetched) + 1
        /\ IF GetFailed(response)
           THEN /\ ~Truthy(fetched'[Len(fetched')])
                /\ Len(messages') = Len(messages) + 1
                /\ SubSeq(messages', 1, Len(messages)) = messages
                /\ messages'[Len(messages')].kind = "error"
                /\ messages'[Len(messages')].text[2] = getLog[Len(getLog)]
           ELSE /\ fetched'[Len(fetched')] = response.body
                /\ messages' = messages]_vars

C1_Witness ==
    /\ pc = "get"
    /\ Len(fetched) = 3
    /\ failed = {"health", "strategies"}
    /\ Truthy(fetched[2])
    /\ Len(messages) = 2

\* C2: from any state where auto-refresh is on and the time since
\* last_update is at least the interval, a GET is eventually issued, also
\* when the user never touches the page.
RefreshDue ==
    /\ auto_refresh
    /\ last_update # NoUpdate
    /\ Elapsed >= refresh_interval

C2_FetchWhenDue == RefreshDue ~> (pc = "get_wait")

\* C3: a run that finds auto-refresh on and the elapsed time above the
\* interval resets last_update to the current time and restarts the script;
\* the restarted run does not fire the trigger again, fetches all five
\* resources, renders the panels and ends, and nothing but the user starts
\* another run; every other step leaves last_update alone, except the single
\* write of the first run of the session.
C3_TriggerResetsOnce ==
    [][/\ (pc = "check" /\ auto_refresh /\ Elapsed > refresh_interval)
            => (last_update' = now /\ pc' = "form" /\ origin' = "rerun"
                /\ getLog' = <<>> /\ panels' = NoPanels)
       /\ (pc = "check" /\ origin = "rerun")
            => (pc' = "get" /\ last_update' = last_update)
       /\ (pc = "panels" /\ origin = "rerun")
            => (getLog = FixedOrder /\ Len(fetched) = 5 /\ pc' = "idle"
                /\ panels' # NoPanels)
       /\ (pc = "idle" /\ pc' # "idle") => origin' = "user"
       /\ (last_update' # last_update)
            => \/ pc = "check" /\ auto_refresh /\ Elapsed > refresh_interval
               \/ pc = "session" /\ last_update = NoUpdate /\ origin = "load"]_vars

C3_Witness ==
    /\ pc = "idle"
    /\ origin = "rerun"
    /\ last_update = now
    /\ Len(fetched) = 5
    /\ panels # NoPanels

\* C4 as stated: a run with auto-refresh off issues no GET.
C4_NoFetchWhenOff == ~auto_refresh => getLog = <<>>

\* C4 amended: with auto-refresh off the trigger never fires, whatever the
\* elapsed time: last_update is not reset and no run is restarted by
\* st.rerun(); a run started by the user still issues the five GETs.
C4_NoTriggerWhenOff ==
    [][~auto_refresh =>
        /\ last_update' = last_update
        /\ origin' # "rerun"
        /\ pc = "check" => pc' = "get"
        /\ pc = "panels" => getLog = FixedOrder]_vars

C4_Witness ==
    /\ ~auto_refresh
    /\ pc = "idle"
    /\ Elapsed > refresh_interval
    /\ getLog = FixedOrder

\* C5: a form submission issues exactly one POST, to the strategies
\* resource, with the six fields taken from the form and is_active true,
\* whatever the POST answers and also when the trigger restarts the script;
\* a run started by anything else issues no POST.
C5_OnePostPerSubmission ==
    /\ Len(posts) <= 1
    /\ ~submit_run => posts = <<>>
    /\ (submit_run /\ ~(pc = "form" /\ origin = "user")) =>
          /\ Len(posts) = 1
          /\ posts[1].url = <<"http://localhost:8080/api", "strategies">>
          /\ DOMAIN posts[1].json =
                {"spot_symbol", "future_symbol", "target_basis", "max_position",
                 "min_trade_size", "is_active"}
          /\ posts[1].json.is_active = TRUE
          /\ \A k \in DOMAIN form : posts[1].json[k] = form[k]

C5_Witness ==
    /\ submit_run
    /\ pc = "idle"
    /\ origin = "rerun"
    /\ post_outcome = "rejected"
    /\ Len(posts) = 1
    /\ form # DefaultForm

\* C6: when the handling of a submission has ended, the page carries exactly
\* one outcome element of the form: the success element if and only if the
\* POST answered 201, an error element otherwise.
C6_OutcomeShown ==
    (submit_run /\ pc = "idle") =>
        /\ Len(FormMessages) = 1
        /\ FormMessages[1].kind = "success" <=> post_outcome = "created"

\* C7: whichever of the five GETs fail, the run issues all five, a failed
\* resource is an empty list and its panel is in its no-data state, and a
\* resource fetched with data has its panel rendered from that data.
NoDataShown(k) ==
    CASE k = 1 -> panels.health[1] = "none"
      [] k = 2 -> panels.metrics[1] = "none" /\ panels.basis[1] = "info"
      [] k = 3 -> panels.strategies[1] = "info"
      [] k = 4 -> panels.positions[1] = "info"
      [] k = 5 -> panels.trades[1] = "info"

DataShown(k) ==
    CASE k = 1 -> /\ panels.health[1] = "metric"
                  /\ panels.health[2][3] = "Online" <=> fetched[1].status = "healthy"
      [] k = 2 -> /\ panels.metrics[1] = "metric"
                  /\ panels.metrics[2][2] = fetched[2][1].basis_percent
                  /\ panels.basis[1] = "plotly_chart"
      [] k = 3 -> /\ panels.strategies[1] = "dataframe"
                  /\ Len(panels.strategies[2]) = Len(fetched[3])
                  /\ \A i \in 1..Len(fetched[3]) :
                        panels.strategies[2][i].id = fetched[3][i].id
      [] k = 4 -> /\ panels.positions[1] = "plotly_chart"
                  /\ Len(panels.positions[2].bars) = Len(fetched[4])
                  /\ Len(panels.positions[3]) = Len(fetched[4])
      [] k = 5 -> /\ panels.trades[1] = "dataframe"
                  /\ Len(panels.trades[2]) = Len(fetched[5])
                  /\ \A i \in 1..Len(fetched[5]) :
                        panels.trades[2][i].id = fetched[5][i].id

C7_FailuresIsolated ==
    pc = "idle" =>
        /\ getLog = FixedOrder
        /\ Len(fetched) = 5
        /\ \A k \in 1..5 :
              /\ FixedOrder[k] \in failed => (~Truthy(fetched[k]) /\ NoDataShown(k))
              /\ (FixedOrder[k] \notin failed /\ Truthy(fetched[k])) => DataShown(k)

C7_Witness ==
    /\ pc = "idle"
    /\ failed = {"basis/snapshots", "positions"}
    /\ Truthy(fetched[1]) /\ Truthy(fetched[3]) /\ Truthy(fetched[5])
    /\ panels.strategies[1] = "dataframe"
    /\ panels.basis[1] = "info"

\* C8: for a non-empty snapshot list the chart has exactly one series per
\* distinct pair string spot_symbol + "/" + future_symbol, and the series of
\* a pair holds exactly the snapshots of that pair, in the order received.
PairOf(s) == s.spot_symbol \o <<"/">> \o s.future_symbol

C8_OneSeriesPerPair ==
    (pc = "idle" /\ Truthy(fetched[2])) =>
        LET snaps == fetched[2]
            Pairs == {PairOf(snaps[i]) : i \in 1..Len(snaps)}
            Rows(p) == {i \in 1..Len(snaps) : PairOf(snaps[i]) = p}
        IN  /\ panels.basis[1] = "plotly_chart"
            /\ LET traces == panels.basis[2].traces
               IN  /\ Len(traces) = Cardinality(Pairs)
                   /\ {traces[k].name : k \in 1..Len(traces)} = Pairs
                   /\ \A k \in 1..Len(traces) :
                         LET R == Rows(traces[k].name)
                         IN  /\ Len(traces[k].x) = Cardinality(R)
                             /\ Len(traces[k].y) = Cardinality(R)
                             /\ \A i \in R :
                                   LET j == Cardinality({h \in R : h <= i})
                                   IN  /\ traces[k].x[j] = to_datetime(snaps[i].timestamp)
                                       /\ traces[k].y[j] = snaps[i].basis_percent

C8_Witness ==
    /\ pc = "idle"
    /\ Len(fetched[2]) = 3
    /\ panels.basis[1] = "plotly_chart"
    /\ Len(panels.basis[2].traces) = 2
    /\ panels.basis[2].traces[1].x = <<2, 1>>
    /\ panels.basis[2].traces[2].x = <<2>>

C10_SequentialFetches ==
    /\ [](/\ Len(getLog) <= 5
          /\ getLog = SubSeq(FixedOrder, 1, Len(getLog))
          /\ Len(getLog) = Len(fetched) + (IF pc \in {"get_wait", "get_done"} THEN 1 ELSE 0)
          /\ panels # NoPanels => (pc = "idle" /\ Len(fetched) = 5)
          /\ pc \in {"panels", "idle"} => getLog = FixedOrder
          /\ pc \in {"form", "post_wait", "session", "check"} => getLog = <<>>)
    /\ [][/\ pc = "get_wait" =>
               (getLog' = getLog /\ fetched' = fetched /\ panels' = panels
                /\ pc' \in {"get_wait", "get_done"})
          /\ (pc = "check" /\ pc' = "form") => getLog = <<>>]_vars

C10_Witness ==
    /\ pc = "get_wait"
    /\ getLog = <<"health", "basis/snapshots", "strategies">>
    /\ Len(fetched) = 2
    /\ Elapsed >= 2
    /\ panels = NoPanels
====
